---- MODULE Spec2Model ----
(***************************************************************************)
(* A model of discord-ext-compat (src/discord/ext/compat/__init__.py).     *)
(*                                                                         *)
(* Three parts of the library are modelled, each over its own variables:   *)
(*   Spec     the context adapter: InteractionAwareContext.send / defer /  *)
(*            reply and MakeshiftMessage.edit on one context               *)
(*   SpecCb   the entry-point callback built by Injector.inject            *)
(*   SpecOpt  the option descriptor store under override_option and        *)
(*            describe                                                     *)
(*   SpecInj  the same store under override decorators followed by         *)
(*            Injector.inject                                              *)
(* The host library (discord.py) is the environment: its calls are         *)
(* recorded, and their outcome is chosen nondeterministically.             *)
(***************************************************************************)
EXTENDS Integers, Sequences, FiniteSets, TLC

(***************************************************************************)
(* Bounds                                                                  *)
(***************************************************************************)
\* coroutines (tasks) that use the same context
NumTasks == 2
\* context operations started on the context
MaxOps == 4
\* nesting depth at which the interpreter raises RecursionError
RecursionLimit == 2
\* invocations of the entry-point callback
MaxInvocations == 2
\* override decorators applied to one callback
MaxOverrides == 2
\* override decorators applied below @inject
MaxOverridesBelow == 1
MaxTokenLen == 3
\* characters a description keeps of the short documentation string
DescriptionLimit == 100

Tasks == 1..NumTasks

MISSING == "MISSING"
None == "None"

VARIABLES
    \* the context adapter
    interaction,   \* ctx.interaction: None, or the interaction of the MakeshiftMessage
    responded,     \* interaction.response.is_done()
    pc,            \* per task: where it is in a context operation
    calls,         \* the host calls issued so far, in order
    done,          \* the context operations that have finished, in order
    unawaited,     \* coroutine objects created and dropped without being awaited
    \* the entry-point callback
    command,       \* the injected command: its cog and the excluded options
    cb,            \* per invocation: where the callback is
    trace,         \* per invocation: what the callback did, in order
    \* the option descriptor store of one callback, and the bot
    options,       \* func.__compat_application_command_options__: parameter name -> descriptor
    applied,       \* override decorators applied so far
    last,          \* the latest decorator application and its outcome
    app_command,   \* func.__compat_application_command__: <<identity>>, <<>> while not set
    registered,    \* the application commands added to the bot, in order
    group,         \* the parent command group: the identity attribute of its
                   \* callback and of the Group object, <<>> while not set
    \* the Range converter
    range,         \* self: min_value and max_value
    argument,      \* the text token, as the sequence of its characters
    converted,     \* what convert did with it
    \* the registration of one command with the compat bot
    compat_inject,            \* callback.__compat_inject__: <<the arguments of the partial>>, <<>> while not set
    compat_injection_kwargs,  \* callback.__compat_injection_kwargs__: <<kwargs>>, <<>> while not set
    command_object,           \* the Command built around the callback: <<command>>, <<>> before
    compat_injector,          \* whether command.__compat_injector__ is set
    added,                    \* the outcome of bot.add_command(command): "no" before the call
    decorated                 \* where an inject decorator was applied: "no" before

ctxVars == <<interaction, responded, pc, calls, done, unawaited>>

cbVars == <<command, cb, trace>>

optVars == <<options, applied, last, app_command, registered, group>>

rangeVars == <<range, argument, converted>>

regVars == <<compat_inject, compat_injection_kwargs, command_object, compat_injector,
             added, decorated>>

vars == <<ctxVars, cbVars, optVars, rangeVars, regVars>>

\* a step of the context adapter leaves the other parts alone, and so on
CtxStep == UNCHANGED <<cbVars, optVars, rangeVars, regVars>>

CbStep == UNCHANGED <<ctxVars, optVars, rangeVars, regVars>>

OptStep == UNCHANGED <<ctxVars, cbVars, group, rangeVars, regVars>>

GroupStep == UNCHANGED <<ctxVars, cbVars, rangeVars, regVars>>

RangeStep == UNCHANGED <<ctxVars, cbVars, optVars, regVars>>

RegStep == UNCHANGED <<ctxVars, cbVars, group, rangeVars>>

(***************************************************************************)
(* PART 1 - the context adapter                                            *)
(***************************************************************************)
Idle == [at |-> "idle", op |-> "none", call |-> 0, before |-> FALSE, depth |-> 0]

\* InteractionAwareContext.__init__: interaction is the message's _interaction
\* for a MakeshiftMessage and None for a real message
CtxInit ==
    /\ interaction \in {None, "Interaction"}
    /\ responded = FALSE
    /\ pc = [t \in Tasks |-> Idle]
    /\ calls = <<>>
    /\ done = <<>>
    /\ unawaited = 0

is_interaction == interaction # None

\* operations started so far (finished or in progress)
Started == Len(done) + Cardinality({t \in Tasks : pc[t].at # "idle"})

AllIdle == \A t \in Tasks : pc[t].at = "idle"

CanStart(t) == pc[t].at = "idle" /\ Started < MaxOps

\* a task starts awaiting the host call `api`
Await(t, op, api) ==
    /\ calls' = Append(calls, [task |-> t, op |-> op, api |-> api,
                               phase |-> responded, res |-> "pending"])
    /\ pc' = [pc EXCEPT ![t] = [at |-> "await", op |-> op, call |-> Len(calls) + 1,
                                before |-> responded, depth |-> 0]]

\* an operation of task t finishes
Finish(t, op, before, api, args, result, after) ==
    done' = Append(done, [task |-> t, op |-> op, before |-> before, api |-> api,
                          args |-> args, result |-> result, after |-> after])

\* (faulty variant) send never looks at the phase
SendPathAlwaysInitial == "response.send_message"

\* the path send takes: followup when the response is done, else the initial response
SendPath == IF responded THEN "followup.send" ELSE "response.send_message"

send(t, op) ==
    /\ IF is_interaction
         THEN Await(t, op, SendPath)
         ELSE Await(t, op, "Context.send")
    /\ UNCHANGED <<interaction, responded, done, unawaited>>

Send(t) == CanStart(t) /\ send(t, "send")

\* defer creates the coroutine response.defer(...) and drops it: the call is
\* not awaited, so nothing of it runs
defer(t, loading, ephemeral) ==
    /\ unawaited' = IF is_interaction THEN unawaited + 1 ELSE unawaited
    /\ Finish(t, "defer", responded, "none", <<loading, ephemeral>>, "ok", responded)
    /\ UNCHANGED <<interaction, responded, pc, calls>>

Defer(t) == CanStart(t) /\ \E loading, ephemeral \in BOOLEAN : defer(t, loading, ephemeral)

\* reply: func is self.send on an interaction-backed context, else self.reply
reply(t) ==
    IF is_interaction
      THEN send(t, "reply")
      ELSE /\ pc' = [pc EXCEPT ![t] = [at |-> "reply", op |-> "reply", call |-> 0,
                                       before |-> responded, depth |-> pc[t].depth + 1]]
           /\ UNCHANGED <<interaction, responded, calls, done, unawaited>>

Reply(t) == CanStart(t) /\ reply(t)

\* the awaited func of a reply on a context without interaction is reply itself
ReplyRecurse(t) ==
    /\ pc[t].at = "reply"
    /\ pc[t].depth < RecursionLimit
    /\ reply(t)

\* the interpreter stops the recursion
ReplyOverflow(t) ==
    /\ pc[t].at = "reply"
    /\ pc[t].depth = RecursionLimit
    /\ Finish(t, "reply", pc[t].before, "none", <<>>, "RecursionError", responded)
    /\ pc' = [pc EXCEPT ![t] = Idle]
    /\ UNCHANGED <<interaction, responded, calls, unawaited>>

\* (faulty variant) edit always edits the original response
EditPathAlwaysOriginal == "edit_original_message"

\* the path edit takes on a MakeshiftMessage
EditPath == IF responded THEN "edit_original_message" ELSE "response.edit_message"

edit(t) ==
    /\ Await(t, "edit", EditPath)
    /\ UNCHANGED <<interaction, responded, done, unawaited>>

\* only the message of an interaction-backed context is a MakeshiftMessage
Edit(t) == CanStart(t) /\ is_interaction /\ edit(t)

\* the awaited host call of task t returns or raises.  The platform accepts
\* one initial response per interaction; a successful initial response
\* (send_message, edit_message) marks the response as done; a followup or an
\* edit of the original response needs an initial response.
HostReturn(t, ok) ==
    /\ pc[t].at = "await"
    /\ LET c == calls[pc[t].call]
           initial == c.api \in {"response.send_message", "response.edit_message"}
           result == IF ok THEN "ok" ELSE "HTTPException"
           after == IF ok /\ initial THEN TRUE ELSE responded
       IN /\ (ok /\ initial) => ~responded
          /\ (ok /\ c.api \in {"followup.send", "edit_original_message"}) => responded
          /\ calls' = [calls EXCEPT ![pc[t].call].res = result]
          /\ responded' = after
          /\ Finish(t, pc[t].op, pc[t].before, c.api, <<>>, result, after)
    /\ pc' = [pc EXCEPT ![t] = Idle]
    /\ UNCHANGED <<interaction, unawaited>>

\* the coroutine of the command handler
Handler == CHOOSE t \in Tasks : \A u \in Tasks : t <= u

\* the handler uses the context: each operation is awaited to completion
\* before the next one starts
CtxNext ==
    \E t \in {Handler} :
        \/ AllIdle /\ Send(t) /\ CtxStep
        \/ AllIdle /\ Defer(t) /\ CtxStep
        \/ AllIdle /\ Reply(t) /\ CtxStep
        \/ AllIdle /\ Edit(t) /\ CtxStep
        \/ ReplyRecurse(t) /\ CtxStep
        \/ ReplyOverflow(t) /\ CtxStep
        \/ \E ok \in BOOLEAN : HostReturn(t, ok) /\ CtxStep

\* several coroutines share the context (asyncio.gather, create_task): a
\* send may start while another one is suspended in its platform call
ConcNext ==
    \E t \in Tasks :
        \/ Send(t) /\ CtxStep
        \/ \E ok \in BOOLEAN : HostReturn(t, ok) /\ CtxStep

(***************************************************************************)
(* PART 2 - the entry-point callback built by Injector.inject              *)
(***************************************************************************)
Invocations == 1..MaxInvocations

\* command.clean_params of the injected command
CleanParams == {"a", "b"}

\* exceptions a host call or the handler can raise
Exceptions == {"CommandError", "CheckFailure", "ValueError", "CancelledError"}

\* (faulty variant) except Exception
CatchesEverything(exc) == exc \in Exceptions

\* except commands.CommandError: the class and its subclasses
IsCommandError(exc) == exc \in {"CommandError", "CheckFailure"}

CbInit ==
    /\ command \in [cog : BOOLEAN, excluded_options : {{}, {"b"}}]
    /\ cb = [i \in Invocations |-> [at |-> "start", exc |-> None]]
    /\ trace = [i \in Invocations |-> <<>>]

At(i, at, exc) == cb' = [cb EXCEPT ![i] = [at |-> at, exc |-> exc]]

\* trace entries: a call that is awaited, its result (a value or the name of
\* the exception it raised), and an event dispatched to the bot
Call(what, arg) == [ev |-> "call", what |-> what, arg |-> arg]
Result(value) == [ev |-> "result", what |-> "result", arg |-> value]
Bool(b) == IF b THEN "True" ELSE "False"
Dispatch(event) == [ev |-> "dispatch", what |-> event, arg |-> None]

Did(i, entries) == trace' = [trace EXCEPT ![i] = @ \o entries]

\* an exception leaves the callback
Propagate(i, exc, entries) == At(i, "raised", exc) /\ Did(i, entries)

\* try ... except commands.CommandError as exc: await ctx.command.dispatch_error(ctx, exc)
Raise(i, exc, entries) ==
    IF IsCommandError(exc)
      THEN At(i, "dispatch_error", None) /\ Did(i, entries \o <<Call("dispatch_error", exc)>>)
      ELSE Propagate(i, exc, entries)

\* the keyword arguments of the handler, and the cog when the command has one
HandlerArgs == [kwargs |-> CleanParams \ command.excluded_options, cog |-> command.cog]

\* the callback builds kwargs and the MakeshiftMessage, and awaits bot.get_context
CbStart(i) ==
    /\ cb[i].at = "start"
    /\ At(i, "get_context", None)
    /\ Did(i, <<Call("get_context", "/command")>>)
    /\ UNCHANGED command

\* (faulty variant) only a missing context ends the callback
NoCommandOnlyNone(ctx) == ctx = None

\* if ctx is None or ctx.command is None
NoCommand(ctx) == ctx \in {None, "no_command"}

\* (faulty variant) the checks are started before "command" is dispatched
BeginChecksFirst(ctx) == <<Result(ctx), Call("can_run", "call_once"), Dispatch("command")>>

\* with a context: bot.dispatch("command", ctx), then await bot.can_run
Begin(ctx) == <<Result(ctx), Dispatch("command"), Call("can_run", "call_once")>>

\* get_context returns: no context or no command ends the callback; otherwise
\* the "command" event is dispatched and bot.can_run is awaited
CbContext(i, ctx) ==
    /\ cb[i].at = "get_context"
    /\ IF NoCommand(ctx)
         THEN At(i, "returned", None) /\ Did(i, <<Result(ctx)>>)
         ELSE At(i, "can_run", None) /\ Did(i, Begin(ctx))
    /\ UNCHANGED command

\* get_context raises: the call is outside the try statement
CbContextRaises(i, exc) ==
    /\ cb[i].at = "get_context"
    /\ Propagate(i, exc, <<Result(exc)>>)
    /\ UNCHANGED command

\* (faulty variant) failed checks end the callback silently
ChecksFailedSilently(i, entries) == At(i, "returned", None) /\ Did(i, entries)

\* the global checks failed: raise commands.CheckFailure inside the try
ChecksFailed(i, entries) == Raise(i, "CheckFailure", entries)

\* bot.can_run returns: the handler is awaited when it is true
CbChecked(i, ok) ==
    /\ cb[i].at = "can_run"
    /\ IF ok
         THEN At(i, "handler", None) /\ Did(i, <<Result(Bool(ok)), Call("handler", HandlerArgs)>>)
         ELSE ChecksFailed(i, <<Result(Bool(ok))>>)
    /\ UNCHANGED command

\* bot.can_run raises
CbCheckRaises(i, exc) ==
    /\ cb[i].at = "can_run"
    /\ Raise(i, exc, <<Result(exc)>>)
    /\ UNCHANGED command

\* the else branch of the try statement: "command_completion" is dispatched
\* and the callback returns
Completed(i, entries) ==
    At(i, "returned", None) /\ Did(i, entries \o <<Dispatch("command_completion")>>)

\* (faulty variant) the completion event is dispatched after the except
\* clause as well, as a finally branch would
HandledThenCompleted(i, entries) == Completed(i, entries)

\* the end of the except clause: the callback returns
Handled(i, entries) == At(i, "returned", None) /\ Did(i, entries)

\* the handler returns: the else branch dispatches "command_completion"
CbHandlerReturns(i) ==
    /\ cb[i].at = "handler"
    /\ Completed(i, <<Result(None)>>)
    /\ UNCHANGED command

\* the handler raises
CbHandlerRaises(i, exc) ==
    /\ cb[i].at = "handler"
    /\ Raise(i, exc, <<Result(exc)>>)
    /\ UNCHANGED command

\* dispatch_error returns, and the callback with it
CbErrorDispatched(i) ==
    /\ cb[i].at = "dispatch_error"
    /\ Handled(i, <<Result(None)>>)
    /\ UNCHANGED command

\* dispatch_error raises: inside the except clause nothing catches it
CbErrorDispatchRaises(i, exc) ==
    /\ cb[i].at = "dispatch_error"
    /\ Propagate(i, exc, <<Result(exc)>>)
    /\ UNCHANGED command

CbNext ==
    \E i \in Invocations :
        \/ CbStart(i) /\ CbStep
        \/ \E ctx \in {None, "no_command", "context"} : CbContext(i, ctx) /\ CbStep
        \/ \E exc \in Exceptions : CbContextRaises(i, exc) /\ CbStep
        \/ \E ok \in BOOLEAN : CbChecked(i, ok) /\ CbStep
        \/ \E exc \in Exceptions : CbCheckRaises(i, exc) /\ CbStep
        \/ CbHandlerReturns(i) /\ CbStep
        \/ \E exc \in Exceptions : CbHandlerRaises(i, exc) /\ CbStep
        \/ CbErrorDispatched(i) /\ CbStep
        \/ \E exc \in Exceptions : CbErrorDispatchRaises(i, exc) /\ CbStep

(***************************************************************************)
(* PART 3 - the option descriptor store: override_option, describe and     *)
(* Injector.inject applied to a command                                    *)
(***************************************************************************)
\* the attributes of an option descriptor
Fields == {"type", "name", "description", "required", "choices", "channel_types",
           "min_value", "max_value", "default"}

\* the keyword arguments of override_option, in the order of its kwargs dict
KwargKeys == <<"type", "name", "description", "required", "optional", "choices",
               "channel_types", "min_value", "max_value", "default">>

Keys == {KwargKeys[k] : k \in DOMAIN KwargKeys}

\* values a caller passes for each keyword
Values(key) ==
    CASE key = "type" -> {"integer", "string"}
      [] key = "name" -> {"n"}
      [] key = "description" -> {"d"}
      [] key \in {"required", "optional"} -> {"True", "False"}
      [] key = "choices" -> {"c"}
      [] key = "channel_types" -> {"text"}
      [] key = "min_value" -> {"1"}
      [] key = "max_value" -> {"10"}
      [] key = "default" -> {"5"}

\* a call names the keywords it passes; the others keep their declared
\* defaults: MISSING, and None for default
Unset == "unset"
NoArgs == [key \in Keys |-> Unset]
Only(key, value) == [NoArgs EXCEPT ![key] = value]
Given(args) == {key \in Keys : args[key] # Unset}

kwargs_of(args) ==
    [key \in Keys |-> IF args[key] # Unset THEN args[key]
                      ELSE IF key = "default" THEN None ELSE MISSING]

\* the calls of override_option the model makes: no keyword, one keyword,
\* required together with optional, and these with a description
OverrideCalls ==
    {NoArgs}
    \cup UNION {{Only(key, value) : value \in Values(key)} : key \in Keys}
    \cup {[NoArgs EXCEPT !["required"] = r, !["optional"] = o, !["description"] = d] :
            r \in {"True", "False"}, o \in {"True", "False"}, d \in {Unset, "d"}}

\* discord's option(): required and optional exclude each other; optional is
\* the inverse of required, which defaults to False; default defaults to None
option(kwargs) ==
    IF kwargs["required"] # MISSING /\ kwargs["optional"] # MISSING
      THEN [error |-> "ValueError", desc |-> None]
      ELSE [error |-> None,
            desc |-> [f \in Fields |->
                        IF f = "required"
                          THEN IF kwargs["optional"] # MISSING
                                 THEN (IF kwargs["optional"] = "True" THEN "False" ELSE "True")
                                 ELSE IF kwargs["required"] = MISSING THEN "False"
                                 ELSE kwargs["required"]
                          ELSE kwargs[f]]]

\* defaultdict(lambda: option(description=MISSING))
Placeholder == option(kwargs_of(NoArgs)).desc

\* options[key] of the defaultdict: the descriptor, created when missing
Lookup(store, key) == IF key \in DOMAIN store THEN store[key] ELSE Placeholder

Put(store, key, desc) == [k \in DOMAIN store \cup {key} |-> IF k = key THEN desc ELSE store[k]]

\* setattr(obj, key, value)
SetAttr(obj, key, value) ==
    [k \in DOMAIN obj \cup {key} |-> IF k = key THEN value ELSE obj[k]]

\* for key, value in kwargs.items(): skip MISSING, else
\* setattr(current, key, getattr(new, key)); getattr raises when new has no
\* such attribute
RECURSIVE CopyFields(_, _, _, _)
CopyFields(current, new, kwargs, k) ==
    IF k > Len(KwargKeys)
      THEN [error |-> None, desc |-> current]
      ELSE LET key == KwargKeys[k]
           IN IF kwargs[key] = MISSING
                THEN CopyFields(current, new, kwargs, k + 1)
                ELSE IF key \notin DOMAIN new
                       THEN [error |-> "AttributeError", desc |-> current]
                       ELSE CopyFields(SetAttr(current, key, new[key]), new, kwargs, k + 1)

\* (faulty variant) the fields are copied from the arguments before option() validates them
ApplyOverrideUnvalidated(current, kwargs, alias) ==
    LET made == option(kwargs)
        copied == CopyFields(current, [f \in Fields |-> kwargs[f]], kwargs, 1)
    IN IF made.error # None
         THEN [error |-> made.error, desc |-> copied.desc]
         ELSE copied

\* the body of override_option's decorator on the descriptor of param_name.
\* alias: whether the descriptor the host builds keeps the keyword optional
\* as an attribute of its own
ApplyOverride(current, kwargs, alias) ==
    LET made == option(kwargs)
        new == IF alias THEN SetAttr(made.desc, "optional", kwargs["optional"]) ELSE made.desc
    IN IF made.error # None
         THEN [error |-> made.error, desc |-> current]
         ELSE CopyFields(current, new, kwargs, 1)

OptInit ==
    /\ options = << >>
    /\ applied = 0
    /\ last = [kind |-> "none"]
    /\ app_command = <<>>
    /\ registered = <<>>
    /\ group = [callback |-> <<>>, command |-> <<>>]

\* override_option(param_name, **args)(func): the descriptor is looked up
\* (and created) before option() validates the arguments
override_option(kind, param_name, args, alias) ==
    LET current == Lookup(options, param_name)
        r == ApplyOverride(current, kwargs_of(args), alias)
    IN /\ options' = Put(options, param_name, r.desc)
       /\ last' = [kind |-> kind, param |-> param_name, args |-> args,
                   existed |-> param_name \in DOMAIN options,
                   before |-> current, after |-> r.desc, error |-> r.error]
       /\ applied' = applied + 1
       /\ UNCHANGED <<app_command, registered>>

\* describe(param_name, description) is override_option(param_name, description=description)
describe(param_name, description, alias) ==
    override_option("describe", param_name, Only("description", description), alias)

\* decorators are applied below @inject, that is before the command is injected
CanOverride(bound) == app_command = <<>> /\ applied < bound /\ last.kind # "inject"

OverrideOption(bound) ==
    /\ CanOverride(bound)
    /\ \E param_name \in CleanParams, args \in OverrideCalls, alias \in BOOLEAN :
          override_option("override_option", param_name, args, alias)

Describe(bound) ==
    /\ CanOverride(bound)
    /\ \E param_name \in CleanParams, alias \in BOOLEAN : describe(param_name, "d", alias)

\* a text, as the sequence of its characters
Text(n) == [i \in 1..n |-> i]

\* (faulty variant) the text is not cut
PrefixUncut(text, n) == text

\* text[:n]
Prefix(text, n) == SubSeq(text, 1, IF Len(text) < n THEN Len(text) ELSE n)

\* a description argument: MISSING, or the text given
NoText == [missing |-> TRUE, text |-> <<>>]
Explicit(text) == [missing |-> FALSE, text |-> text]

\* inspect.Parameter.empty
Empty == "empty"

\* the parameters a command declares: default and annotation of each
ParamDecls == [default : {Empty, "7"}, annotation : {None, "int", "Unknown"}]

\* the commands the model injects
Commands ==
    [clean_params : {[a |-> pa, b |-> [default |-> "7", annotation |-> "int"]] : pa \in ParamDecls}
                    \cup {[a |-> [default |-> "7", annotation |-> None],
                           b |-> [default |-> Empty, annotation |-> "Unknown"]]},
     short_doc : {Text(0), Text(3), Text(DescriptionLimit + 1)},
     parent : {None, "group"}]

\* _resolve_option_annotation(current, annotation), with the fallback of
\* inject: an annotation discord cannot resolve raises TypeError and the type
\* becomes string
ResolveAnnotation(current, annotation) ==
    IF annotation = "int"
      THEN [current EXCEPT !["type"] = "integer"]
      ELSE [current EXCEPT !["type"] = "string"]

\* (faulty variant) the default of the parameter is not carried over
InferParamWithoutDefault(current, parameter) ==
    IF parameter.default = Empty
      THEN [current EXCEPT !["required"] = "True"]
      ELSE [current EXCEPT !["required"] = "False"]

\* the body of inject's loop over command.clean_params for one parameter
InferParam(current, parameter) ==
    IF parameter.default = Empty
      THEN [current EXCEPT !["required"] = "True"]
      ELSE LET marked == [current EXCEPT !["required"] = "False",
                                         !["default"] = parameter.default]
           IN IF parameter.annotation # None
                THEN ResolveAnnotation(marked, parameter.annotation)
                ELSE marked

\* the loop of inject over command.clean_params, skipping excluded options
InferOptions(store, clean_params, excluded_options) ==
    LET kept == DOMAIN clean_params \ excluded_options
    IN [key \in DOMAIN store \cup kept |->
          IF key \in kept THEN InferParam(Lookup(store, key), clean_params[key])
          ELSE store[key]]

\* the description of the application command: the one given, else the
\* first DescriptionLimit characters of a non-empty command.short_doc
ResolveDescription(description, short_doc) ==
    IF description.missing /\ short_doc # <<>>
      THEN Explicit(Prefix(short_doc, DescriptionLimit))
      ELSE description

\* (faulty variant) a command without description is registered all the same
NoDescriptionNever(resolved) == FALSE

\* if not description: MISSING and the empty text are both false
NoDescription(resolved) == resolved.missing \/ resolved.text = <<>>

\* the parent of the application command: the one given, else the attribute
\* __compat_application_command__ of the command's parent Group object
ResolveParent(parent, cmd) ==
    IF parent = <<>> /\ cmd.parent # None /\ group.command # <<>>
      THEN group.command
      ELSE parent

\* Injector.inject(name, description=..., parent=..., guild_id=...,
\* excluded_options=...)(command)
inject(cmd, description, parent, guild_id, excluded_options) ==
    LET resolved == ResolveDescription(description, cmd.short_doc)
        inferred == InferOptions(options, cmd.clean_params, excluded_options)
        identity == Len(registered) + 1
        call == [kind |-> "inject", command |-> cmd, description |-> description,
                 parent |-> parent, excluded_options |-> excluded_options,
                 below |-> options]
    IN IF NoDescription(resolved)
         THEN /\ last' = call @@ [error |-> "ValueError"]
              /\ UNCHANGED <<options, applied, app_command, registered>>
         ELSE /\ options' = inferred
              /\ app_command' = <<identity>>
              /\ registered' = Append(registered,
                                      [identity |-> identity, name |-> "command",
                                       description |-> resolved.text,
                                       parent |-> ResolveParent(parent, cmd),
                                       guild_id |-> guild_id, options |-> inferred])
              /\ last' = call @@ [error |-> None]
              /\ UNCHANGED applied

Inject ==
    /\ last.kind # "inject"
    /\ \E cmd \in Commands, description \in {NoText, Explicit(<<>>), Explicit(<<9, 9>>)},
          parent \in {<<>>, <<0>>}, guild_id \in {MISSING}, excluded_options \in {{}, {"b"}} :
          inject(cmd, description, parent, guild_id, excluded_options)

\* the injection of the parent command group, a command without parameters:
\* the generated identity is attached to the callback of the group, the
\* Group object itself gets no attribute
InjectGroup ==
    /\ last.kind # "inject"
    /\ group.callback = <<>>
    /\ LET identity == Len(registered) + 1
       IN /\ registered' = Append(registered,
                                  [identity |-> identity, name |-> "group",
                                   description |-> <<9>>, parent |-> <<>>,
                                   guild_id |-> MISSING, options |-> << >>])
          /\ group' = [group EXCEPT !.callback = <<identity>>]
    /\ UNCHANGED <<options, applied, last, app_command>>

\* the override decorators on their own
OptNext ==
    \/ OverrideOption(MaxOverrides) /\ OptStep
    \/ Describe(MaxOverrides) /\ OptStep

\* override decorators below @inject, then the injection
InjNext ==
    \/ OverrideOption(MaxOverridesBelow) /\ OptStep
    \/ Describe(MaxOverridesBelow) /\ OptStep
    \/ InjectGroup /\ GroupStep
    \/ Inject /\ OptStep

(***************************************************************************)
(* PART 4 - Range.convert, the converter of the legacy text path           *)
(***************************************************************************)
\* the characters of a token: digits, signs, white space and others. int()
\* also accepts underscores between digits and other Unicode digits, which
\* are outside this alphabet
DigitChars == {"0", "1", "5"}
Chars == DigitChars \cup {"-", "+", " ", "x"}

Tokens == UNION {[1..n -> Chars] : n \in 0..MaxTokenLen}

\* the bounds of a Range
Ranges == [min_value : {-5, 1}, max_value : {1, 15}]

DigitValue(c) == CASE c = "0" -> 0 [] c = "1" -> 1 [] c = "5" -> 5

\* str.strip(), which int() applies to its argument
RECURSIVE StripLeft(_)
StripLeft(text) ==
    IF text # <<>> /\ Head(text) = " " THEN StripLeft(Tail(text)) ELSE text

RECURSIVE StripRight(_)
StripRight(text) ==
    IF text # <<>> /\ text[Len(text)] = " "
      THEN StripRight(SubSeq(text, 1, Len(text) - 1))
      ELSE text

\* the value of a sequence of digits
RECURSIVE Number(_)
Number(digits) ==
    IF digits = <<>> THEN 0
    ELSE 10 * Number(SubSeq(digits, 1, Len(digits) - 1)) + DigitValue(digits[Len(digits)])

\* int(argument) on a str: white space around, an optional sign, and at
\* least one digit; anything else raises ValueError
int(text) ==
    LET stripped == StripRight(StripLeft(text))
        signed == stripped # <<>> /\ Head(stripped) \in {"+", "-"}
        digits == IF signed THEN Tail(stripped) ELSE stripped
    IN IF digits # <<>> /\ \A k \in DOMAIN digits : digits[k] \in DigitChars
         THEN [error |-> None,
               value |-> IF signed /\ Head(stripped) = "-" THEN 0 - Number(digits)
                         ELSE Number(digits)]
         ELSE [error |-> "ValueError", value |-> 0]

\* (faulty variant) the bounds themselves are refused
InRangeExclusive(self, n) == self.min_value < n /\ n < self.max_value

\* self.min_value <= argument <= self.max_value
InRange(self, n) == self.min_value <= n /\ n <= self.max_value

\* the BadArgument of convert: its message shows the bounds and
\* repr(argument), where argument is the integer once int() has succeeded
\* and the token otherwise
BadArgument(self, parsed, text) ==
    [kind |-> "BadArgument", value |-> 0,
     message |-> <<[min_value |-> self.min_value, max_value |-> self.max_value,
                    repr |-> IF parsed.error = None THEN "int" ELSE "str",
                    number |-> parsed.value,
                    text |-> IF parsed.error = None THEN <<>> ELSE text]>>]

\* Range.convert(ctx, argument)
convert(self, text) ==
    LET parsed == int(text)
    IN IF parsed.error = None /\ InRange(self, parsed.value)
         THEN [kind |-> "return", value |-> parsed.value, message |-> <<>>]
         ELSE BadArgument(self, parsed, text)

NotConverted == [kind |-> "none", value |-> 0, message |-> <<>>]

RangeInit ==
    /\ range \in Ranges
    /\ argument \in Tokens
    /\ converted = NotConverted

Convert ==
    /\ converted = NotConverted
    /\ converted' = convert(range, argument)
    /\ UNCHANGED <<range, argument>>

RangeNext == Convert /\ RangeStep

(***************************************************************************)
(* PART 5 - the inject decorators and CompatBotMixin.add_command           *)
(***************************************************************************)
\* the keyword arguments given to an inject decorator
InjectKwargs ==
    [description : {NoText, Explicit(<<9, 9>>)}, parent : {<<>>}, guild_id : {MISSING},
     excluded_options : {{}, {"b"}}]

RegInit ==
    /\ compat_inject = <<>>
    /\ compat_injection_kwargs = <<>>
    /\ command_object = <<>>
    /\ compat_injector = FALSE
    /\ added = "no"
    /\ decorated = "no"

\* no application command is made
NoInjection == UNCHANGED <<options, applied, last, app_command, registered>>

\* injector.inject(**kwargs)(command)
InjectWith(kwargs) ==
    inject(command_object[1], kwargs.description, kwargs.parent, kwargs.guild_id,
           kwargs.excluded_options)

\* whether that call raises: the command has no description
InjectRaises(kwargs) ==
    NoDescription(ResolveDescription(kwargs.description, command_object[1].short_doc))

\* Injector.inject(...)(func) on a plain callback: a partial of self.inject
\* is attached, built without excluded_options
InjectorOnCallback ==
    /\ decorated = "no"
    /\ command_object = <<>>
    /\ \E kwargs \in InjectKwargs :
          compat_inject' = <<[kwargs EXCEPT !.excluded_options = {}]>>
    /\ decorated' = "injector_callback"
    /\ NoInjection
    /\ UNCHANGED <<compat_injection_kwargs, command_object, compat_injector, added>>

\* inject(...)(func) on a plain callback: the kwargs are attached to it
InjectOnCallback ==
    /\ decorated = "no"
    /\ command_object = <<>>
    /\ \E kwargs \in InjectKwargs : compat_injection_kwargs' = <<kwargs>>
    /\ decorated' = "callback"
    /\ NoInjection
    /\ UNCHANGED <<compat_inject, command_object, compat_injector, added>>

\* commands.command()(func): the Command object around the callback
CreateCommand ==
    /\ command_object = <<>>
    /\ \E cmd \in Commands : command_object' = <<cmd>>
    /\ NoInjection
    /\ UNCHANGED <<compat_inject, compat_injection_kwargs, compat_injector, added, decorated>>

\* inject(...)(command) on a Command object: injected at once when the
\* command carries __compat_injector__, and otherwise returned as it is
InjectOnCommand ==
    /\ decorated = "no"
    /\ command_object # <<>>
    /\ \E kwargs \in InjectKwargs :
          IF compat_injector
            THEN InjectWith(kwargs) /\ decorated' = "added_command"
            ELSE NoInjection /\ decorated' = "command"
    /\ UNCHANGED <<compat_inject, compat_injection_kwargs, command_object, compat_injector, added>>

\* CompatBotMixin.add_command(command): the pending injection of the
\* callback is made, then the injector is attached and the command added;
\* an exception of the injection leaves add_command before that
AddCommand ==
    /\ command_object # <<>>
    /\ added = "no"
    /\ LET pending == IF compat_inject # <<>> THEN compat_inject
                      ELSE compat_injection_kwargs
       IN IF pending # <<>>
            THEN /\ InjectWith(pending[1])
                 /\ IF InjectRaises(pending[1])
                      THEN added' = "failed" /\ UNCHANGED compat_injector
                      ELSE added' = "added" /\ compat_injector' = TRUE
            ELSE /\ NoInjection
                 /\ added' = "added"
                 /\ compat_injector' = TRUE
    /\ UNCHANGED <<compat_inject, compat_injection_kwargs, command_object, decorated>>

RegNext ==
    \/ InjectorOnCallback /\ RegStep
    \/ InjectOnCallback /\ RegStep
    \/ CreateCommand /\ RegStep
    \/ InjectOnCommand /\ RegStep
    \/ AddCommand /\ RegStep

(***************************************************************************)
(* Specifications                                                          *)
(***************************************************************************)
\* the variables of the other parts, at rest
CtxRest ==
    /\ interaction = None
    /\ responded = FALSE
    /\ pc = [t \in Tasks |-> Idle]
    /\ calls = <<>>
    /\ done = <<>>
    /\ unawaited = 0

OptRest == OptInit

RegRest == RegInit

RangeRest ==
    /\ range = [min_value |-> 0, max_value |-> 0]
    /\ argument = <<>>
    /\ converted = NotConverted

CbRest ==
    /\ command = [cog |-> FALSE, excluded_options |-> {}]
    /\ cb = [i \in Invocations |-> [at |-> "start", exc |-> None]]
    /\ trace = [i \in Invocations |-> <<>>]

\* the context adapter
Init == CtxInit /\ CbRest /\ OptRest /\ RangeRest /\ RegRest

Next == CtxNext

Spec == Init /\ [][Next]_vars

\* the context adapter used by concurrent coroutines
InitConc == CtxInit /\ CbRest /\ OptRest /\ RangeRest /\ RegRest

NextConc == ConcNext

SpecConc == InitConc /\ [][NextConc]_vars

\* the entry-point callback
InitCb == CbInit /\ CtxRest /\ OptRest /\ RangeRest /\ RegRest

NextCb == CbNext

SpecCb == InitCb /\ [][NextCb]_vars

\* the override decorators
InitOpt == OptInit /\ CtxRest /\ CbRest /\ RangeRest /\ RegRest

NextOpt == OptNext

SpecOpt == InitOpt /\ [][NextOpt]_vars

\* the Range converter
InitRange == RangeInit /\ CtxRest /\ CbRest /\ OptRest /\ RegRest

NextRange == RangeNext

SpecRange == InitRange /\ [][NextRange]_vars

\* the registration of a command with the compat bot
InitReg == RegInit /\ OptInit /\ CtxRest /\ CbRest /\ RangeRest

NextReg == RegNext

SpecReg == InitReg /\ [][NextReg]_vars

\* the injection of a command
NextInj == InjNext

SpecInj == InitOpt /\ [][NextInj]_vars

(***************************************************************************)
(* Claims about the context adapter (checked under Spec)                   *)
(***************************************************************************)
SendCalls == {i \in DOMAIN calls : calls[i].op = "send"}

\* C1: on an interaction-backed context, with every send awaited before the
\* next operation starts, a send issued in NOT_RESPONDED takes the
\* initial-response path and, once it has returned, the phase is RESPONDED;
\* every send after a send that returned takes the followup path; at most
\* one initial response is ever accepted.
C1_SendPhaseLaw ==
    is_interaction =>
        /\ \A i \in SendCalls :
              /\ calls[i].phase = FALSE <=> calls[i].api = "response.send_message"
              /\ calls[i].phase = TRUE <=> calls[i].api = "followup.send"
        /\ \A i \in DOMAIN done :
              (done[i].op = "send" /\ done[i].result = "ok") => done[i].after = TRUE
        /\ \A i, j \in SendCalls :
              (i < j /\ calls[i].res = "ok") => calls[j].api = "followup.send"
        /\ Cardinality({i \in DOMAIN calls :
                          calls[i].api = "response.send_message" /\ calls[i].res = "ok"}) <= 1

\* two sends have returned: the first was the initial response, the second a followup
C1_Witness ==
    /\ is_interaction
    /\ \E i, j \in SendCalls :
          /\ i < j
          /\ calls[i].api = "response.send_message" /\ calls[i].res = "ok"
          /\ calls[j].api = "followup.send" /\ calls[j].res = "ok"
    /\ \A i \in DOMAIN calls : calls[i].op = "send"

DeferOps == {i \in DOMAIN done : done[i].op = "defer"}

\* C2: a defer() that finished on an interaction-backed context in
\* NOT_RESPONDED has requested a deferred response with its flags and left
\* the phase RESPONDED (so that a later send is a followup); on a context
\* without interaction it has requested nothing.
C2_DeferRequestsResponse ==
    \A i \in DeferOps :
        IF is_interaction /\ ~done[i].before
          THEN /\ done[i].api = "response.defer"
               /\ \E c \in DOMAIN calls : calls[c].api = "response.defer"
               /\ done[i].after = TRUE
          ELSE is_interaction \/ (done[i].api = "none" /\ unawaited = 0)

\* C3: a defer() on an interaction that has already been responded to fails
\* with InteractionResponded, and a failed platform defer call fails the
\* defer(); neither is reported as success.
C3_DeferFailureReported ==
    \A i \in DeferOps :
        /\ (is_interaction /\ done[i].before) => done[i].result = "InteractionResponded"
        /\ \A c \in DOMAIN calls :
              (calls[c].api = "response.defer" /\ calls[c].res = "HTTPException")
                  => done[i].result # "ok"

EditCalls == {i \in DOMAIN calls : calls[i].op = "edit"}

\* C4: edit() of a synthesized message uses response.edit_message exactly
\* when the phase is NOT_RESPONDED and edit_original_message exactly when it
\* is RESPONDED; edit_original_message is never issued without a response.
C4_EditPhaseLaw ==
    /\ \A i \in EditCalls :
          /\ calls[i].api = "response.edit_message" <=> calls[i].phase = FALSE
          /\ calls[i].api = "edit_original_message" <=> calls[i].phase = TRUE
    /\ \A i \in DOMAIN calls :
          calls[i].api = "edit_original_message" =>
              \E j \in 1..(i - 1) :
                  /\ calls[j].api \in {"response.send_message", "response.edit_message"}
                  /\ calls[j].res = "ok"

\* an edit before any response and an edit after a send, both done
C4_Witness ==
    \E i, j, k \in DOMAIN calls :
        /\ i < j /\ j < k
        /\ calls[i].api = "response.edit_message" /\ calls[i].res = "HTTPException"
        /\ calls[j].api = "response.send_message" /\ calls[j].res = "ok"
        /\ calls[k].api = "edit_original_message" /\ calls[k].res = "ok"

\* C5: reply() on a context without interaction does not call itself again
\* and finishes with exactly one legacy threaded reply.
C5_LegacyReplyTerminates ==
    ~is_interaction =>
        /\ \A t \in Tasks : pc[t].depth <= 1
        /\ \A i \in DOMAIN done :
              done[i].op = "reply" =>
                  /\ done[i].api = "Context.reply"
                  /\ done[i].result # "RecursionError"

(***************************************************************************)
(* Claims about the entry-point callback (checked under SpecCb)            *)
(***************************************************************************)
Dispatched(i, event) ==
    \E k \in DOMAIN trace[i] : trace[i][k].ev = "dispatch" /\ trace[i][k].what = event

Calls(i, what) == {k \in DOMAIN trace[i] : trace[i][k].ev = "call" /\ trace[i][k].what = what}

\* the results of bot.can_run and of the handler, by position in the trace
TryResults(i) ==
    {k \in DOMAIN trace[i] :
        /\ trace[i][k].ev = "result"
        /\ k > 1
        /\ trace[i][k - 1].ev = "call"
        /\ trace[i][k - 1].what \in {"can_run", "handler"}}

\* C6: when bot.can_run returns false the handler is never invoked, a
\* CheckFailure is passed exactly once to dispatch_error, at once, and no
\* "command_completion" is dispatched.
C6_CheckFailureDispatched ==
    \A i \in Invocations :
        \A k \in TryResults(i) :
            trace[i][k].arg = "False" =>
                /\ Calls(i, "handler") = {}
                /\ Calls(i, "dispatch_error") = {k + 1}
                /\ trace[i][k + 1].arg = "CheckFailure"
                /\ ~Dispatched(i, "command_completion")

\* the checks returned false and the callback has returned
C6_Witness ==
    \E i \in Invocations :
        /\ cb[i].at = "returned"
        /\ \E k \in TryResults(i) : trace[i][k].arg = "False"

\* C7: an exception raised by the checks or by the handler is passed to
\* dispatch_error exactly when it is a CommandError or a subclass of it; any
\* other exception leaves the callback, with dispatch_error not called and
\* "command_completion" not dispatched.
C7_OnlyCommandErrorsDispatched ==
    \A i \in Invocations :
        /\ \A k \in TryResults(i) :
              trace[i][k].arg \in Exceptions =>
                  IF trace[i][k].arg \in {"CommandError", "CheckFailure"}
                    THEN /\ Calls(i, "dispatch_error") = {k + 1}
                         /\ trace[i][k + 1].arg = trace[i][k].arg
                    ELSE /\ cb[i] = [at |-> "raised", exc |-> trace[i][k].arg]
                         /\ k = Len(trace[i])
                         /\ Calls(i, "dispatch_error") = {}
                         /\ ~Dispatched(i, "command_completion")
        /\ \A k \in Calls(i, "dispatch_error") :
              /\ k - 1 \in TryResults(i)
              /\ trace[i][k - 1].arg \in {"CommandError", "CheckFailure", "False"}

\* one invocation dispatched a CommandError of the handler, another let a
\* ValueError of the handler out
C7_Witness ==
    \E i, j \in Invocations :
        /\ \E k \in TryResults(i) :
              /\ trace[i][k - 1].what = "handler"
              /\ trace[i][k].arg = "CommandError"
        /\ cb[i].at = "returned"
        /\ \E k \in TryResults(j) :
              /\ trace[j][k - 1].what = "handler"
              /\ trace[j][k].arg = "ValueError"
        /\ cb[j].at = "raised"

(***************************************************************************)
(* Claims about the option descriptors (checked under SpecOpt and SpecInj) *)
(***************************************************************************)
Injected == last.kind = "inject" /\ last.error = None

Schema == registered[Len(registered)]

\* C8: in the schema an injection registers, every parameter that is not
\* excluded has an option; it is required when the parameter has no default,
\* and otherwise optional with the parameter's default as its default.
C8_RequiredFollowsDefault ==
    Injected =>
        \A key \in DOMAIN last.command.clean_params \ last.excluded_options :
            /\ key \in DOMAIN Schema.options
            /\ IF last.command.clean_params[key].default = Empty
                 THEN Schema.options[key]["required"] = "True"
                 ELSE /\ Schema.options[key]["required"] = "False"
                      /\ Schema.options[key]["default"] = last.command.clean_params[key].default

\* a command with a parameter without default and one with a default was
\* injected, after an override decorator had been applied
C8_Witness ==
    /\ Injected
    /\ last.excluded_options = {}
    /\ last.command.clean_params["a"].default = Empty
    /\ last.command.clean_params["b"].default = "7"
    /\ applied > 0
    /\ Schema.options["a"]["required"] = "True"
    /\ Schema.options["b"]["default"] = "7"

Overridden == last.kind \in {"override_option", "describe"}

\* C9: an override that passes exactly one of the descriptor's fields sets
\* that field and leaves every other field of the descriptor as it was.
C9_OverrideKeepsOtherFields ==
    Overridden =>
        \A x \in Fields :
            (Given(last.args) = {x} /\ last.error = None) =>
                /\ last.after[x] = last.args[x]
                /\ \A f \in Fields \ {x} : last.after[f] = last.before[f]

\* C10: an override that passes both required and optional fails, on every
\* application, and the descriptor of the parameter keeps all its fields.
C10_RequiredAndOptionalRejected ==
    (Overridden /\ {"required", "optional"} \subseteq Given(last.args)) =>
        /\ last.error = "ValueError"
        /\ last.after = last.before
        /\ options[last.param] = last.before

\* the rejected override was applied to a descriptor an earlier override had set
C10_Witness ==
    /\ Overridden
    /\ {"required", "optional", "description"} \subseteq Given(last.args)
    /\ last.existed
    /\ last.before # Placeholder
    /\ last.before["required"] # last.args["required"]
    /\ last.error # None

\* C11: injecting a command that has neither a description nor a short
\* documentation string fails with ValueError before anything is created:
\* no application command is registered and the callback has no identity.
C11_MissingDescriptionIsFatal ==
    (/\ last.kind = "inject"
     /\ last.description.missing
     /\ last.command.short_doc = <<>>) =>
        /\ last.error = "ValueError"
        /\ \A i \in DOMAIN registered : registered[i].name # "command"
        /\ app_command = <<>>

\* such a command was injected, after an override decorator on its callback
C11_Witness ==
    /\ last.kind = "inject"
    /\ last.description.missing
    /\ last.command.short_doc = <<>>
    /\ applied > 0
    /\ last.error = "ValueError"

\* the first n characters of a text, character by character
FirstChars(text, n) == [i \in 1..(IF Len(text) < n THEN Len(text) ELSE n) |-> text[i]]

\* C13: a command with a non-empty short documentation string and no
\* explicit description is registered with the first 100 characters of that
\* string (all of it when it is shorter); an explicit description is
\* registered as given.
C13_DescriptionFromShortDoc ==
    Injected =>
        /\ (last.description.missing /\ last.command.short_doc # <<>>) =>
              /\ Schema.description = FirstChars(last.command.short_doc, 100)
              /\ Len(Schema.description) <= 100
        /\ ~last.description.missing => Schema.description = last.description.text

\* a short documentation string of more than 100 characters was cut to 100
C13_Witness ==
    /\ Injected
    /\ last.description.missing
    /\ Len(last.command.short_doc) > 100
    /\ Len(Schema.description) = 100
    /\ Schema.description[100] = last.command.short_doc[100]

\* C12: a subcommand injected without explicit parent, whose parent group
\* was injected earlier, is registered with the identity generated for the
\* group as its parent.
C12_ParentInherited ==
    (/\ Injected
     /\ last.command.parent = "group"
     /\ last.parent = <<>>
     /\ group.callback # <<>>) => Schema.parent = group.callback

\* the option type the resolver derives from an annotation, string when
\* the annotation cannot be resolved
TypeOf(annotation) == IF annotation = "int" THEN "integer" ELSE "string"

\* C18: injection runs the annotation resolver, with its fallback to the
\* string type, on every non-excluded annotated parameter, with or without
\* a default: the descriptor handed to the host has the type of the annotation.
C18_AnnotationAlwaysResolved ==
    (Injected /\ applied = 0) =>
        \A key \in DOMAIN last.command.clean_params \ last.excluded_options :
            LET parameter == last.command.clean_params[key]
            IN parameter.annotation # None =>
                  Schema.options[key]["type"] = TypeOf(parameter.annotation)

\* the fields of a descriptor that injection infers
InferredFields == {"type", "required", "default", "min_value", "max_value"}

\* C19: a field that a decorator below @inject set on a descriptor keeps
\* its value through the injection: inference only fills what was left unset.
C19_OverrideSurvivesInjection ==
    Injected =>
        \A key \in DOMAIN last.below \ last.excluded_options, f \in InferredFields :
            last.below[key][f] # Placeholder[f] =>
                Schema.options[key][f] = last.below[key][f]

\* the positions of an event in the trace of an invocation
Events(i, event) ==
    {k \in DOMAIN trace[i] : trace[i][k].ev = "dispatch" /\ trace[i][k].what = event}

\* the handler call at position h has returned or raised
HandlerFinished(i, h) == h + 1 <= Len(trace[i]) /\ trace[i][h + 1].ev = "result"

\* C15: within one invocation "command" is dispatched before the global
\* checks and before the handler; the handler has finished before
\* "command_completion" is dispatched or dispatch_error is called; the
\* handler is invoked at most once.
C15_EventsOrdered ==
    \A i \in Invocations :
        /\ \A k \in Calls(i, "can_run") \cup Calls(i, "handler") :
              \E j \in Events(i, "command") : j < k
        /\ \A h \in Calls(i, "handler") :
              /\ \E c \in Calls(i, "can_run") : c < h
              /\ \A k \in Events(i, "command_completion") \cup Calls(i, "dispatch_error") :
                    HandlerFinished(i, h) /\ h + 1 < k
        /\ Cardinality(Calls(i, "handler")) <= 1
        /\ Cardinality(Events(i, "command")) <= 1

\* one invocation ran the handler to completion, another dispatched the
\* error its handler raised
C15_Witness ==
    \E i, j \in Invocations :
        /\ Events(i, "command_completion") # {}
        /\ Calls(j, "handler") # {}
        /\ Calls(j, "dispatch_error") # {}
        /\ cb[j].at = "returned"

\* the handler of the invocation was called and returned without raising
HandlerReturned(i) ==
    \E h \in Calls(i, "handler") : HandlerFinished(i, h) /\ trace[i][h + 1].arg = None

\* C16: "command_completion" is dispatched if and only if the handler was
\* invoked and returned without raising; at most once, as the last action of
\* the callback, never together with dispatch_error and never in an
\* invocation ended by a cancellation or another exception.
C16_CompletionOnlyOnSuccess ==
    \A i \in Invocations :
        /\ Events(i, "command_completion") # {} <=> HandlerReturned(i)
        /\ Events(i, "command_completion") \subseteq {Len(trace[i])}
        /\ Events(i, "command_completion") # {} =>
              /\ Calls(i, "dispatch_error") = {}
              /\ cb[i] = [at |-> "returned", exc |-> None]
        /\ cb[i].at = "raised" => Events(i, "command_completion") = {}

\* one invocation completed with the event as its last action, another was
\* cancelled inside the handler
C16_Witness ==
    \E i, j \in Invocations :
        /\ HandlerReturned(i)
        /\ Events(i, "command_completion") = {Len(trace[i])}
        /\ Calls(j, "handler") # {}
        /\ cb[j] = [at |-> "raised", exc |-> "CancelledError"]

\* get_context of the invocation returned no context, or one without command
Unresolved(i) ==
    /\ Len(trace[i]) >= 2
    /\ trace[i][2].ev = "result"
    /\ trace[i][2].arg \in {None, "no_command"}

\* C17: when get_context returns no context or a context without command,
\* the callback returns without raising and without dispatching "command",
\* evaluating the checks, invoking the handler, calling dispatch_error or
\* dispatching "command_completion".
C17_UnresolvedContextIsSilent ==
    \A i \in Invocations :
        Unresolved(i) =>
            /\ cb[i] = [at |-> "returned", exc |-> None]
            /\ Len(trace[i]) = 2
            /\ Events(i, "command") = {}
            /\ Events(i, "command_completion") = {}
            /\ Calls(i, "can_run") \cup Calls(i, "handler") \cup Calls(i, "dispatch_error") = {}

\* one invocation found no context, another a context without command
C17_Witness ==
    \E i, j \in Invocations :
        /\ Unresolved(i) /\ trace[i][2].arg = None
        /\ Unresolved(j) /\ trace[j][2].arg = "no_command"
        /\ cb[j].at = "returned"

\* the tasks suspended in the platform call of a send
Sending == {t \in Tasks : pc[t].at = "await" /\ pc[t].op = "send"}

\* C20 as stated: of two sends that overlap on an interaction-backed
\* context, at most one uses the initial-response path and the other goes
\* through the followup path.
C20_OverlappingSendsSplit ==
    is_interaction =>
        \A t, u \in Sending :
            t # u => ~(/\ calls[pc[t].call].api = "response.send_message"
                       /\ calls[pc[u].call].api = "response.send_message")

\* the initial responses the platform has accepted
Accepted == {i \in DOMAIN calls : calls[i].api = "response.send_message" /\ calls[i].res = "ok"}

\* C20, amended: each send picks its path from the phase at the moment it
\* is called, so overlapping sends called in NOT_RESPONDED all take the
\* initial-response path; the platform accepts at most one initial response,
\* the phase is RESPONDED exactly when one was accepted, and a send takes the
\* followup path only when it is called after that.
C20_PathFollowsPhaseAtCall ==
    is_interaction =>
        /\ \A i \in SendCalls :
              /\ calls[i].api = (IF calls[i].phase THEN "followup.send" ELSE "response.send_message")
              /\ calls[i].phase => \E j \in Accepted : j < i
        /\ responded <=> Accepted # {}
        /\ Cardinality(Accepted) <= 1

\* two overlapping sends both took the initial-response path, the platform
\* accepted one and rejected the other, and a later send was a followup
C20_Witness ==
    /\ is_interaction
    /\ \E i, j, k \in SendCalls :
          /\ i # j /\ calls[i].task # calls[j].task
          /\ calls[i].api = "response.send_message" /\ calls[i].res = "ok"
          /\ calls[j].api = "response.send_message" /\ calls[j].res = "HTTPException"
          /\ ~calls[j].phase
          /\ calls[k].api = "followup.send" /\ calls[k].res = "ok"

\* the weight of a decimal place
RECURSIVE Power10(_)
Power10(e) == IF e = 0 THEN 1 ELSE 10 * Power10(e - 1)

\* the digits at positions k..j of a text, each times the weight of its place
RECURSIVE PositionalSum(_, _, _)
PositionalSum(text, k, j) ==
    IF k > j THEN 0
    ELSE DigitValue(text[k]) * Power10(j - k) + PositionalSum(text, k + 1, j)

\* the text is white space, then a numeral from position i to position j
\* (an optional sign and digits), then white space
Numeral(text, i, j) ==
    /\ i <= j
    /\ \A k \in 1..(i - 1) : text[k] = " "
    /\ \A k \in (j + 1)..Len(text) : text[k] = " "
    /\ text[j] \in DigitChars
    /\ \A k \in (i + 1)..j : text[k] \in DigitChars
    /\ text[i] \in DigitChars \cup {"+", "-"}

\* the integers a token denotes (at most one)
Denoted(text) ==
    {(IF text[s[1]] = "-" THEN -1 ELSE 1) *
       PositionalSum(text, IF text[s[1]] \in {"+", "-"} THEN s[1] + 1 ELSE s[1], s[2]) :
     s \in {s \in (DOMAIN text) \X (DOMAIN text) : Numeral(text, s[1], s[2])}}

\* C14: Range.convert returns the integer n exactly when the token denotes an
\* integer n with min_value <= n <= max_value; for every other token it
\* raises BadArgument, whose message names the attempted value and both
\* bounds; it never returns anything but an integer.
C14_RangeConvert ==
    converted # NotConverted =>
        LET accepted == {n \in Denoted(argument) : range.min_value <= n /\ n <= range.max_value}
        IN /\ converted.kind = "return" <=> accepted # {}
           /\ converted.kind = "return" =>
                 /\ converted.value \in accepted
                 /\ converted.value \in Int
           /\ converted.kind # "return" =>
                 /\ converted.kind = "BadArgument"
                 /\ Len(converted.message) = 1
                 /\ converted.message[1].min_value = range.min_value
                 /\ converted.message[1].max_value = range.max_value
                 /\ IF Denoted(argument) = {}
                      THEN /\ converted.message[1].repr = "str"
                           /\ converted.message[1].text = argument
                      ELSE /\ converted.message[1].repr = "int"
                           /\ converted.message[1].number \in Denoted(argument)

\* a token of a sign or white space and a digit was accepted at a bound of
\* the range
C14_Witness ==
    /\ converted.kind = "return"
    /\ Len(argument) >= 2
    /\ converted.value \in {range.min_value, range.max_value}
    /\ range.min_value < range.max_value

\* an inject decorator was applied, the command was added to the bot, and
\* no injection raised
BothStepsDone ==
    /\ decorated # "no"
    /\ added = "added"
    /\ ~(last.kind = "inject" /\ last.error = "ValueError")

\* C21: in whatever order @inject and the registration with the compat bot
\* are applied to a command, once both have happened exactly one application
\* command is registered for it: never none, never two.
C21_ExactlyOneRegistered ==
    BothStepsDone => Len(registered) = 1 /\ app_command # <<>>

====
